---- MODULE Spec2Model ----
(***************************************************************************)
(* find_file (src/src/main.rs): the driver `main`, the recursive walk       *)
(* `search_files`, the line scanner `search_content` and the reporting      *)
(* step `display_results`, as a state machine over a finite file system.    *)
(*                                                                          *)
(* Strings are sequences of one-character strings.  A path is a sequence    *)
(* of components (names).  The recursion of search_files is an explicit     *)
(* stack of frames; a call returns by leaving its tuple in `ret`.           *)
(***************************************************************************)
EXTENDS Integers, Sequences, FiniteSets, TLC

(***************************************************************************)
(* Bounds of the model.                                                     *)
(***************************************************************************)
MaxFilters == 2     \* length of the --filter list
MaxLines == 2       \* lines of a file
MaxNodes == 3       \* directory entries of a tree, all levels together
MaxRoots == 2       \* directories named on the command line

(***************************************************************************)
(* Characters, names, patterns.                                             *)
(***************************************************************************)
BadByte == "<FF>"              \* a byte that is not valid UTF-8
ReplacementChar == "<U+FFFD>"  \* what the lossy conversion puts in its place
BadLine == <<BadByte>>         \* a line that does not decode: lines() yields Err

notes_txt == <<"n", "o", "t", "e", "s", ".", "t", "x", "t">>
secret_txt == <<"s", "e", "c", "r", "e", "t", ".", "t", "x", "t">>
dot_env == <<".", "e", "n", "v">>
dot_a_txt == <<".", "a", ".", "t", "x", "t">>
bad_txt == <<BadByte, ".", "t", "x", "t">>
TODO == <<"T", "O", "D", "O">>
star_txt == <<"*", ".", "t", "x", "t">>
unclosed == <<"[">>            \* no regex: an unclosed character class

dot == <<".">>
dir_a == <<"a">>
dir_b == <<"b">>
dir_c == <<"c">>
locked == <<"l", "o", "c", "k">>
missing == <<"g", "o", "n", "e">>

None == [some |-> FALSE, val |-> <<>>]
Some(x) == [some |-> TRUE, val |-> x]

SeqsUpTo(S, n) == UNION {[1..k -> S] : k \in 0..n}

(***************************************************************************)
(* The regex crate, as far as the program uses it.                          *)
(***************************************************************************)
RECURSIVE replace(_)
\* str::replace("*", ".*")
replace(p) ==
    IF p = <<>> THEN <<>>
    ELSE (IF Head(p) = "*" THEN <<".", "*">> ELSE <<Head(p)>>) \o replace(Tail(p))

\* format!("^{}$", ...)
format_anchored(s) == <<"^">> \o s \o <<"$">>

RECURSIVE parse(_)
\* the atoms of a regex text: an atom, starred when a "*" follows it
parse(s) ==
    IF s = <<>> THEN <<>>
    ELSE IF Len(s) >= 2 /\ s[2] = "*"
         THEN <<[c |-> s[1], star |-> TRUE]>> \o parse(SubSeq(s, 3, Len(s)))
         ELSE <<[c |-> s[1], star |-> FALSE]>> \o parse(Tail(s))

\* Regex::new(text).ok()
Regex_new(text) ==
    IF \E k \in DOMAIN text : text[k] = "[" THEN None ELSE Some(parse(text))

\* Regex::new(&format!("^{}$", pattern.replace("*", ".*"))).ok()
compile(pattern) == Regex_new(format_anchored(replace(pattern)))

\* one character against one atom; "." is any character
atom_matches(c, ch) == c = "." \/ c = ch

RECURSIVE match_at(_, _, _, _)
\* does re[i..] match s starting at position j (1-based; j = Len(s)+1 is the end)
match_at(re, i, s, j) ==
    IF i > Len(re) THEN TRUE
    ELSE IF re[i].c = "^" THEN j = 1 /\ match_at(re, i + 1, s, j)
    ELSE IF re[i].c = "$" THEN j = Len(s) + 1 /\ match_at(re, i + 1, s, j)
    ELSE IF re[i].star
         THEN \/ match_at(re, i + 1, s, j)
              \/ /\ j <= Len(s)
                 /\ atom_matches(re[i].c, s[j])
                 /\ match_at(re, i, s, j + 1)
         ELSE /\ j <= Len(s)
              /\ atom_matches(re[i].c, s[j])
              /\ match_at(re, i + 1, s, j + 1)

\* Regex::is_match: a search, anchored only by the regex's own ^ and $
is_match(re, s) == \E j \in 1..(Len(s) + 1) : match_at(re, 1, s, j)

any_match(regexes, s) == \E k \in DOMAIN regexes : is_match(regexes[k], s)

RECURSIVE filter_map_compile(_)
\* args.filter.iter().filter_map(|p| Regex::new(..).ok()).collect()
filter_map_compile(patterns) ==
    IF patterns = <<>> THEN <<>>
    ELSE LET r == compile(Head(patterns))
         IN (IF r.some THEN <<r.val>> ELSE <<>>) \o filter_map_compile(Tail(patterns))

(***************************************************************************)
(* Paths and their conversions.                                             *)
(***************************************************************************)
join(path, name) == Append(path, name)

\* OsStr::to_str: None when the name is not valid UTF-8
to_str(name) ==
    IF \E k \in DOMAIN name : name[k] = BadByte THEN None ELSE Some(name)

lossy(name) == [k \in DOMAIN name |-> IF name[k] = BadByte THEN ReplacementChar ELSE name[k]]

\* Path::to_string_lossy / Path::display
to_string_lossy(path) == [k \in DOMAIN path |-> lossy(path[k])]

starts_with_dot(name) == Len(name) >= 1 /\ name[1] = "."

(***************************************************************************)
(* The file system: nodes and directory entries.                            *)
(*   stat : outcome of a metadata lookup of the node                        *)
(*   open : outcome of read_dir (a directory) or File::open (a file)        *)
(***************************************************************************)
NoNode == [name |-> <<>>, kind |-> "none", stat |-> "Other", open |-> "Other",
           lines |-> <<>>, entries |-> <<>>]

FileNode(name, open, lines) ==
    [name |-> name, kind |-> "file", stat |-> "ok", open |-> open,
     lines |-> lines, entries |-> <<>>]

DirNode(name, stat, open, entries) ==
    [name |-> name, kind |-> "dir", stat |-> stat, open |-> open,
     lines |-> <<>>, entries |-> entries]

OkEntry(node) == [err |-> "none", node |-> node]
ErrEntry(kind) == [err |-> kind, node |-> NoNode]


\* names of the readable entries of a listing
NamesOf(entries) == {entries[k].node.name : k \in {j \in DOMAIN entries : entries[j].err = "none"}}

(***************************************************************************)
(* Inputs.  Three families, each varying one part of the input:             *)
(*   selection : one directory holding one file, every option combination   *)
(*   walk      : every tree of at most MaxNodes entries, two option sets    *)
(*   roots     : every list of at most MaxRoots root directories            *)
(***************************************************************************)
FilterPatterns == {star_txt, TODO, unclosed}
ExcludeOptions == {None, Some(secret_txt), Some(unclosed)}
FileNames == {notes_txt, secret_txt, dot_env, dot_a_txt, bad_txt}
LineItems == {TODO, BadLine}
\* what File::open and the lines of a file can be, the file having at most n lines
FileContents(n) ==
    {[open |-> "PermissionDenied", lines |-> <<>>]}
        \cup {[open |-> "ok", lines |-> l] : l \in SeqsUpTo(LineItems, n)}

\* a filter list and the contents of the file: long lists with short files, and
\* short lists with long files
SelectionCases ==
    (SeqsUpTo(FilterPatterns, MaxFilters) \X FileContents(1))
        \cup (SeqsUpTo(FilterPatterns, 1) \X FileContents(MaxLines))

Args(exclude, all, filter, dir, additional_dirs, content) ==
    [exclude |-> exclude, all |-> all, filter |-> filter, dir |-> dir,
     additional_dirs |-> additional_dirs, content |-> content]

\* what lies inside a directory that cannot be listed
Unseen == <<OkEntry(FileNode(notes_txt, "ok", <<TODO>>))>>

WalkFiles == {FileNode(notes_txt, "ok", <<TODO>>), FileNode(dot_env, "PermissionDenied", <<>>)}
FailingDirs ==
    {DirNode(dir_c, "ok", "PermissionDenied", Unseen),
     DirNode(dir_b, "ok", "Other", Unseen),
     DirNode(dir_b, "PermissionDenied", "PermissionDenied", Unseen)}
Leaves ==
    {ErrEntry("PermissionDenied"), ErrEntry("Other")}
        \cup {OkEntry(n) : n \in WalkFiles \cup FailingDirs}

RECURSIVE EntriesOfSize(_), ListingsOfSize(_)
\* the entries that take s of the MaxNodes budget: itself and what is below it
EntriesOfSize(s) ==
    IF s = 1
    THEN Leaves \cup {OkEntry(DirNode(n, "ok", "ok", <<>>)) : n \in {dir_b, dir_c}}
    ELSE {OkEntry(DirNode(n, "ok", "ok", l)) : n \in {dir_b, dir_c}, l \in ListingsOfSize(s - 1)}

\* the listings of exactly k entries in all, names distinct within a directory
ListingsOfSize(k) ==
    IF k = 0 THEN {<<>>}
    ELSE UNION {
           UNION {
             {<<e>> \o r : r \in {q \in ListingsOfSize(k - s) :
                                    e.err = "none" => e.node.name \notin NamesOf(q)}}
             : e \in EntriesOfSize(s)}
           : s \in 1..k}

\* the trees of at most n files and directories below the root a
WalkTrees(n) == UNION {{DirNode(dir_a, "ok", "ok", l) : l \in ListingsOfSize(k)} : k \in 0..n}

\* the options of a walk: everything is searched, by name and content, or the
\* visible *.txt files other than secret.txt, by name
SearchAll == Args(None, TRUE, <<>>, <<dir_a>>, <<>>, TRUE)
SearchVisibleTxt == Args(Some(secret_txt), FALSE, <<star_txt>>, <<dir_a>>, <<>>, FALSE)

RootNames == {dot, dir_a, locked, missing, notes_txt}

\* the part of the file system that does not vary
FixedRoots ==
    [r \in RootNames |->
        CASE r = dot -> DirNode(dot, "ok", "ok", <<OkEntry(FileNode(notes_txt, "ok", <<TODO>>))>>)
          [] r = dir_a -> DirNode(dir_a, "ok", "ok",
                            <<OkEntry(FileNode(secret_txt, "ok", <<>>)),
                              OkEntry(DirNode(dir_c, "ok", "PermissionDenied", Unseen))>>)
          [] r = locked -> DirNode(locked, "PermissionDenied", "PermissionDenied", Unseen)
          [] r = missing -> [NoNode EXCEPT !.name = missing]
          [] r = notes_txt -> FileNode(notes_txt, "ok", <<TODO>>)]

\* a file system holding the one tree, at the path a
WithRoot(tree) == [r \in {dir_a} |-> tree]

SelectionInputs ==
    {[args |-> Args(e, a, fc[1], <<dir_a>>, <<>>, c),
      fs |-> WithRoot(DirNode(dir_a, "ok", "ok",
                              <<OkEntry(FileNode(n, fc[2].open, fc[2].lines))>>))] :
        e \in ExcludeOptions, a \in BOOLEAN, c \in BOOLEAN, n \in FileNames,
        fc \in SelectionCases}

\* the larger trees are walked with the options that read every file
WalkInputs ==
    {[args |-> SearchAll, fs |-> WithRoot(t)] : t \in WalkTrees(MaxNodes)}
        \cup {[args |-> SearchVisibleTxt, fs |-> WithRoot(t)] : t \in WalkTrees(MaxNodes - 1)}

RootInputs ==
    {[args |-> Args(None, FALSE, <<>>, d, x, c), fs |-> FixedRoots] :
        d \in SeqsUpTo(RootNames \ {dot}, MaxRoots), x \in {<<>>, <<dir_a>>}, c \in BOOLEAN}

Inputs == SelectionInputs \cup WalkInputs \cup RootInputs

(***************************************************************************)
(* File system lookups.                                                     *)
(***************************************************************************)
RECURSIVE Resolve(_, _)
\* the node a relative path leads to from a node
Resolve(node, rest) ==
    IF rest = <<>> THEN node
    ELSE IF \E k \in DOMAIN node.entries :
              node.entries[k].err = "none" /\ node.entries[k].node.name = Head(rest)
         THEN LET k == CHOOSE k \in DOMAIN node.entries :
                          node.entries[k].err = "none" /\ node.entries[k].node.name = Head(rest)
              IN Resolve(node.entries[k].node, Tail(rest))
         ELSE NoNode

Lookup(fsys, path) ==
    IF Head(path) \in DOMAIN fsys THEN Resolve(fsys[Head(path)], Tail(path)) ELSE NoNode

\* Path::metadata: "ok" or the kind of the error
metadata(node) == node.stat

\* fault: a directory is recognised by its kind alone, its metadata unread
is_dir_by_kind(node) == node.kind = "dir"

\* Path::is_dir: false as well when the metadata lookup fails
is_dir(node) == node.stat = "ok" /\ node.kind = "dir"

\* fault: the result of fs::read_dir is not looked at
read_dir_unchecked(node) == "ok"

\* fs::read_dir: "ok" or the kind of the error
read_dir(node) == IF node.stat = "ok" THEN node.open ELSE node.stat

\* File::open: "ok" or the kind of the error
File_open(node) == IF node.stat = "ok" /\ node.kind = "file" THEN node.open ELSE
                   IF node.stat = "ok" THEN "Other" ELSE node.stat


(***************************************************************************)
(* Error text: a String, kept as its pieces, a message or a line feed.      *)
(***************************************************************************)
Message(text, path, cause) == [text |-> text, path |-> path, cause |-> cause]
NL == Message("\n", <<>>, "")

RECURSIVE lines_from(_, _)
\* str::lines: the text cut at each line feed, no empty last line
lines_from(text, line) ==
    IF text = <<>> THEN (IF line = <<>> THEN <<>> ELSE <<line>>)
    ELSE IF Head(text) = NL THEN <<line>> \o lines_from(Tail(text), <<>>)
         ELSE lines_from(Tail(text), Append(line, Head(text)))

lines(text) == lines_from(text, <<>>)

(***************************************************************************)
(* search_content and the selection of search_files.                        *)
(***************************************************************************)
Ok(v) == [ok |-> TRUE, val |-> v, err |-> "none"]
Err(kind) == [ok |-> FALSE, val |-> FALSE, err |-> kind]

RECURSIVE scan_lines(_, _)
\* for line in reader.lines() { let line = line?; if any match { return Ok(true) } } Ok(false)
scan_lines(ls, regexes) ==
    IF ls = <<>> THEN Ok(FALSE)
    ELSE IF Head(ls) = BadLine THEN Err("InvalidData")
    ELSE IF any_match(regexes, Head(ls)) THEN Ok(TRUE)
    ELSE scan_lines(Tail(ls), regexes)

search_content(node, regexes) ==
    IF File_open(node) # "ok" THEN Err(File_open(node)) ELSE scan_lines(node.lines, regexes)

\* fault: the hidden rule is left out
hidden_ok_always(a, file_name) == TRUE

hidden_ok(a, file_name) == a.all \/ ~starts_with_dot(file_name)

\* fault: an empty filter set includes no name
name_included_nonempty(regexes, file_name) == any_match(regexes, file_name)

name_included(regexes, file_name) == regexes = <<>> \/ any_match(regexes, file_name)

\* fault: the exclude pattern is left out
not_excluded_always(exclude_regex, file_name) == TRUE

not_excluded(exclude_regex, file_name) ==
    IF exclude_regex.some THEN ~is_match(exclude_regex.val, file_name) ELSE TRUE

name_matches(a, regexes, exclude_regex, file_name) ==
    /\ hidden_ok(a, file_name)
    /\ name_included(regexes, file_name)
    /\ not_excluded(exclude_regex, file_name)

\* fault: the content is scanned without -c as well
content_scan_always(a, regexes, node) == search_content(node, regexes)

\* the scan of one file entry: the Result of search_content, or Ok(false) without -c
content_scan(a, regexes, node) ==
    IF a.content THEN search_content(node, regexes) ELSE Ok(FALSE)

content_matches(scan) == IF scan.ok THEN scan.val ELSE FALSE

(***************************************************************************)
(* State.                                                                   *)
(***************************************************************************)
VARIABLES
    args,                       \* the parsed command line
    fs,                         \* the file system, by root path
    pc,                         \* where main is
    filter_regexes,             \* main: the compiled --filter patterns
    directories,                \* main: the roots to search
    next_dir,                   \* main: index of the root the for loop is at
    all_files,                  \* main: accumulated tuple, field 1
    all_permission_denied_dirs, \* main: field 2
    other_error_occurred,       \* main: field 3
    error_messages,             \* main: field 4
    stack,                      \* the active search_files calls, innermost last
    ret,                        \* the tuple a call has just returned
    calls,                      \* how many times search_files was entered
    printed                     \* what display_results wrote

vars == <<args, fs, pc, filter_regexes, directories, next_dir, all_files,
          all_permission_denied_dirs, other_error_occurred, error_messages,
          stack, ret, calls, printed>>

input == <<args, fs>>
main_acc == <<all_files, all_permission_denied_dirs, other_error_occurred, error_messages>>

Tuple(dir, files, permission_denied_dirs, other_error, error_message) ==
    [some |-> TRUE, dir |-> dir, files |-> files,
     permission_denied_dirs |-> permission_denied_dirs,
     other_error_occurred |-> other_error, error_message |-> error_message]

NoRet == [some |-> FALSE, dir |-> <<>>, files |-> <<>>, permission_denied_dirs |-> <<>>,
          other_error_occurred |-> FALSE, error_message |-> <<>>]

\* a fresh call of search_files(dir, ..): lines 93-96
Frame(dir) ==
    [dir |-> dir, at |-> "metadata", files |-> <<>>, permission_denied_dirs |-> <<>>,
     other_error_occurred |-> FALSE, error_message |-> <<>>,
     exclude_regex |-> None, read_dir |-> <<>>]

Top == stack[Len(stack)]
Callers == SubSeq(stack, 1, Len(stack) - 1)
SetTop(f) == [stack EXCEPT ![Len(stack)] = f]
Running == stack # <<>> /\ ~ret.some

\* return (files, permission_denied_dirs, other_error_occurred, error_message)
Return(f) ==
    /\ stack' = Callers
    /\ ret' = Tuple(f.dir, f.files, f.permission_denied_dirs,
                    f.other_error_occurred, f.error_message)

NoPrint == [done |-> FALSE, files |-> <<>>, permission_denied |-> <<>>, errors |-> <<>>]

\* the state main starts in, on one of the given inputs
InitOver(inputs) ==
    /\ \E inp \in inputs : args = inp.args /\ fs = inp.fs
    /\ pc = "filter_regexes"
    /\ filter_regexes = <<>>
    /\ directories = <<>>
    /\ next_dir = 1
    /\ all_files = <<>>
    /\ all_permission_denied_dirs = <<>>
    /\ other_error_occurred = FALSE
    /\ error_messages = <<>>
    /\ stack = <<>>
    /\ ret = NoRet
    /\ calls = 0
    /\ printed = NoPrint

Init == InitOver(Inputs)

(***************************************************************************)
(* main                                                                     *)
(***************************************************************************)
\* lines 37-40
CompileFilters ==
    /\ pc = "filter_regexes"
    /\ filter_regexes' = filter_map_compile(args.filter)
    /\ pc' = "directories"
    /\ UNCHANGED <<input, directories, next_dir, main_acc, stack, ret, calls, printed>>

\* lines 42-53
CollectDirectories ==
    /\ pc = "directories"
    /\ directories' = (IF args.dir \o args.additional_dirs = <<>>
                       THEN <<dot>>
                       ELSE args.dir \o args.additional_dirs)
    /\ pc' = "for"
    /\ UNCHANGED <<input, filter_regexes, next_dir, main_acc, stack, ret, calls, printed>>

\* lines 55-56: the call of search_files(dir, &args, &filter_regexes)
CallSearchFiles ==
    /\ pc = "for"
    /\ next_dir <= Len(directories)
    /\ stack' = <<Frame(<<directories[next_dir]>>)>>
    /\ calls' = calls + 1
    /\ pc' = "merge"
    /\ UNCHANGED <<input, filter_regexes, directories, next_dir, main_acc, ret, printed>>

\* fault: the flag of the last directory overwrites the accumulated flag
MergeResult_overwriting_flag ==
    /\ pc = "merge"
    /\ stack = <<>>
    /\ ret.some
    /\ all_files' = all_files \o ret.files
    /\ all_permission_denied_dirs' = all_permission_denied_dirs \o ret.permission_denied_dirs
    /\ other_error_occurred' = ret.other_error_occurred
    /\ error_messages' = (IF ret.error_message # <<>>
                          THEN error_messages \o ret.error_message \o <<NL>>
                          ELSE error_messages)
    /\ ret' = NoRet
    /\ next_dir' = next_dir + 1
    /\ pc' = "for"
    /\ UNCHANGED <<input, filter_regexes, directories, stack, calls, printed>>

\* lines 56-63: the returned tuple is added to the accumulators
MergeResult ==
    /\ pc = "merge"
    /\ stack = <<>>
    /\ ret.some
    /\ all_files' = all_files \o ret.files
    /\ all_permission_denied_dirs' = all_permission_denied_dirs \o ret.permission_denied_dirs
    /\ other_error_occurred' = (other_error_occurred \/ ret.other_error_occurred)
    /\ error_messages' = (IF ret.error_message # <<>>
                          THEN error_messages \o ret.error_message \o <<NL>>
                          ELSE error_messages)
    /\ ret' = NoRet
    /\ next_dir' = next_dir + 1
    /\ pc' = "for"
    /\ UNCHANGED <<input, filter_regexes, directories, stack, calls, printed>>

\* lines 252-298, what it prints of the result
display_results(files, permission_denied_dirs, other_error, messages) ==
    [done |-> TRUE, files |-> files, permission_denied |-> permission_denied_dirs,
     errors |-> IF other_error THEN lines(messages) ELSE <<>>]

\* line 66
DisplayResults ==
    /\ pc = "for"
    /\ next_dir > Len(directories)
    /\ printed' = display_results(all_files, all_permission_denied_dirs,
                                  other_error_occurred, error_messages)
    /\ pc' = "done"
    /\ UNCHANGED <<input, filter_regexes, directories, next_dir, main_acc, stack, ret, calls>>


(***************************************************************************)
(* search_files, one action per step of the innermost call                  *)
(***************************************************************************)
main_state == <<pc, filter_regexes, directories, next_dir, main_acc, printed>>

\* lines 99-117: dir.metadata()
CheckMetadata ==
    /\ Running
    /\ Top.at = "metadata"
    /\ LET node == Lookup(fs, Top.dir)
           m == metadata(node)
       IN IF m = "ok" /\ node.kind = "dir"
          THEN /\ stack' = SetTop([Top EXCEPT !.at = "read_dir"])
               /\ ret' = ret
          ELSE IF m = "ok"
          THEN Return([Top EXCEPT
                   !.other_error_occurred = TRUE,
                   !.error_message = <<Message("Error: {} is not a directory",
                                               to_string_lossy(Top.dir), "")>>])
          ELSE IF m = "PermissionDenied"
          THEN Return([Top EXCEPT
                   !.permission_denied_dirs = Append(@, to_string_lossy(Top.dir))])
          ELSE Return([Top EXCEPT
                   !.other_error_occurred = TRUE,
                   !.error_message = <<Message("Error accessing {}: {}",
                                               to_string_lossy(Top.dir), m)>>])
    /\ UNCHANGED <<input, main_state, calls>>

\* lines 119-120
exclude_compile(a) == IF a.exclude.some THEN compile(a.exclude.val) ELSE None

\* lines 119-134: the exclude regex and fs::read_dir(dir)
OpenDirectory ==
    /\ Running
    /\ Top.at = "read_dir"
    /\ LET node == Lookup(fs, Top.dir)
           r == read_dir(node)
           f == [Top EXCEPT !.exclude_regex = exclude_compile(args)]
       IN IF r = "ok"
          THEN /\ stack' = SetTop([f EXCEPT !.at = "entries", !.read_dir = node.entries])
               /\ ret' = ret
          ELSE IF r = "PermissionDenied"
          THEN Return([f EXCEPT
                   !.permission_denied_dirs = Append(@, to_string_lossy(Top.dir))])
          ELSE Return([f EXCEPT
                   !.other_error_occurred = TRUE,
                   !.error_message = <<Message("Error reading directory {}: {}",
                                               to_string_lossy(Top.dir), r)>>])
    /\ UNCHANGED <<input, main_state, calls>>

AtEntry == Running /\ Top.at = "entries" /\ Top.read_dir # <<>>
Entry == Head(Top.read_dir)

\* fault: every failure of an entry is a generic error
entry_error_generic(f, e) ==
    [f EXCEPT !.other_error_occurred = TRUE,
              !.error_message = @ \o <<Message("Error accessing entry: {}", <<>>, e), NL>>,
              !.read_dir = Tail(@)]

\* lines 176-183: frame f after the iterator yielded Err(e) of kind e
entry_error(f, e) ==
    IF e = "PermissionDenied"
    THEN [f EXCEPT !.permission_denied_dirs = Append(@, to_string_lossy(f.dir)),
                   !.read_dir = Tail(@)]
    ELSE [f EXCEPT !.other_error_occurred = TRUE,
                   !.error_message = @ \o <<Message("Error accessing entry: {}", <<>>, e), NL>>,
                   !.read_dir = Tail(@)]

\* lines 136-137, 176-183
EntryError ==
    /\ AtEntry
    /\ Entry.err # "none"
    /\ stack' = SetTop(entry_error(Top, Entry.err))
    /\ UNCHANGED <<input, main_state, ret, calls>>

\* lines 138-141: the recursive call
EnterSubdirectory ==
    /\ AtEntry
    /\ Entry.err = "none"
    /\ is_dir(Entry.node)
    /\ stack' = Append(SetTop([Top EXCEPT !.at = "splice", !.read_dir = Tail(@)]),
                       Frame(join(Top.dir, Entry.node.name)))
    /\ calls' = calls + 1
    /\ UNCHANGED <<input, main_state, ret>>

\* fault: the files of the subdirectory are put in front
splice_in_front(f, r) ==
    [f EXCEPT !.files = r.files \o @,
              !.permission_denied_dirs = @ \o r.permission_denied_dirs,
              !.other_error_occurred = @ \/ r.other_error_occurred,
              !.error_message = IF r.error_message # <<>>
                                THEN @ \o r.error_message \o <<NL>>
                                ELSE @,
              !.at = "entries"]

\* lines 141-148: frame f after the recursive call returned r
splice(f, r) ==
    [f EXCEPT !.files = @ \o r.files,
              !.permission_denied_dirs = @ \o r.permission_denied_dirs,
              !.other_error_occurred = @ \/ r.other_error_occurred,
              !.error_message = IF r.error_message # <<>>
                                THEN @ \o r.error_message \o <<NL>>
                                ELSE @,
              !.at = "entries"]

SpliceSubResult ==
    /\ stack # <<>>
    /\ ret.some
    /\ Top.at = "splice"
    /\ stack' = SetTop(splice(Top, ret))
    /\ ret' = NoRet
    /\ UNCHANGED <<input, main_state, calls>>

\* lines 150-173: frame f after a non-directory entry `node`
file_entry(f, a, regexes, node) ==
    LET file_name == to_str(node.name)
        path == join(f.dir, node.name)
        full_path == to_string_lossy(path)
        scan == content_scan(a, regexes, node)
        selected == \/ name_matches(a, regexes, f.exclude_regex, file_name.val)
                    \/ content_matches(scan)
        g == IF scan.ok THEN f
             ELSE [f EXCEPT !.other_error_occurred = TRUE,
                            !.error_message = @ \o <<Message("Error reading file {}: {}",
                                                             to_string_lossy(path), scan.err),
                                                     NL>>]
    IN IF ~file_name.some THEN [f EXCEPT !.read_dir = Tail(@)]
       ELSE [g EXCEPT !.files = IF selected THEN Append(@, full_path) ELSE @,
                      !.read_dir = Tail(@)]

EntryFile ==
    /\ AtEntry
    /\ Entry.err = "none"
    /\ ~is_dir(Entry.node)
    /\ stack' = SetTop(file_entry(Top, args, filter_regexes, Entry.node))
    /\ UNCHANGED <<input, main_state, ret, calls>>

\* line 187
ReturnResult ==
    /\ Running
    /\ Top.at = "entries"
    /\ Top.read_dir = <<>>
    /\ Return(Top)
    /\ UNCHANGED <<input, main_state, calls>>

Next ==
    \/ CompileFilters
    \/ CollectDirectories
    \/ CallSearchFiles
    \/ MergeResult
    \/ DisplayResults
    \/ CheckMetadata
    \/ OpenDirectory
    \/ EntryError
    \/ EnterSubdirectory
    \/ SpliceSubResult
    \/ EntryFile
    \/ ReturnResult

Spec == Init /\ [][Next]_vars


(***************************************************************************)
(* The statements checked.  What the specification states is written out    *)
(* here on the inputs, without the operators of search_files.               *)
(***************************************************************************)
PermissionDenied == "PermissionDenied"

NewTop == stack'[Len(stack')]

Utf8(name) == \A k \in DOMAIN name : name[k] # BadByte

\* hiddenOk, nameIncluded, nameExcluded, nameMatches of the Selection Policy
StatedHiddenOk(name) == args.all \/ name[1] # "."
StatedFilterMatches(s) == \E k \in DOMAIN filter_regexes : is_match(filter_regexes[k], s)
StatedNameIncluded(name) == filter_regexes = <<>> \/ StatedFilterMatches(name)
StatedNameExcluded(name) ==
    /\ args.exclude.some
    /\ compile(args.exclude.val).some
    /\ is_match(compile(args.exclude.val).val, name)
StatedNameMatches(name) ==
    StatedHiddenOk(name) /\ StatedNameIncluded(name) /\ ~StatedNameExcluded(name)

\* the content scan succeeds with a matching line
StatedScanMatches(node) ==
    /\ File_open(node) = "ok"
    /\ \E k \in DOMAIN node.lines :
          /\ \A j \in 1..k : node.lines[j] # BadLine
          /\ StatedFilterMatches(node.lines[k])
StatedContentMatches(node) == args.content /\ StatedScanMatches(node)
StatedSelected(node) == StatedNameMatches(node.name) \/ StatedContentMatches(node)

\* the step of search_files on a file entry appends the entry's path iff b
Selects(b) ==
    NewTop.files = IF b THEN Append(Top.files,
                                    to_string_lossy(join(Top.dir, Entry.node.name)))
                   ELSE Top.files

\* C1 as stated: for every file entry and every configuration the path is
\* appended if and only if nameMatches OR contentMatches.
C1_Original == [][EntryFile => Selects(StatedSelected(Entry.node))]_vars

\* C1 as amended: for every file entry whose name is valid UTF-8 the path is
\* appended if and only if nameMatches OR contentMatches (the exclude pattern and
\* the hidden rule do not suppress a content match); an entry whose name is not
\* valid UTF-8 is skipped: nothing is appended and no error is recorded.
C1_Selection ==
    [][EntryFile =>
         /\ Selects(Utf8(Entry.node.name) /\ StatedSelected(Entry.node))
         /\ ~Utf8(Entry.node.name) => NewTop.error_message = Top.error_message]_vars

C1_Witness ==
    /\ stack # <<>>
    /\ args.content /\ ~args.all
    /\ args.exclude = Some(secret_txt)
    /\ StatedNameExcluded(secret_txt)
    /\ Top.files = <<to_string_lossy(<<dir_a, secret_txt>>)>>


RECURSIVE DeniedInFrames(_)
DeniedInFrames(frames) ==
    IF frames = <<>> THEN 0
    ELSE Len(Head(frames).permission_denied_dirs) + DeniedInFrames(Tail(frames))

\* the denied-directory paths held anywhere: in the calls, in flight, in main
DeniedTotal ==
    DeniedInFrames(stack) + Len(ret.permission_denied_dirs) + Len(all_permission_denied_dirs)

\* the innermost call is about to fail at directory level with permission denied
DirectoryDenied ==
    /\ Running
    /\ \/ Top.at = "metadata" /\ Lookup(fs, Top.dir).stat = PermissionDenied
       \/ /\ Top.at = "read_dir"
          /\ Lookup(fs, Top.dir).stat = "ok"
          /\ Lookup(fs, Top.dir).open = PermissionDenied

EntryDenied == AtEntry /\ Entry.err = PermissionDenied

SuppliedMatches(pattern, s) == compile(pattern).some /\ is_match(compile(pattern).val, s)
SuppliedFilterMatches(s) == \E k \in DOMAIN args.filter : SuppliedMatches(args.filter[k], s)
SelectedIfInvalidMatchesNothing(node) ==
    \/ /\ StatedHiddenOk(node.name)
       /\ args.filter = <<>> \/ SuppliedFilterMatches(node.name)
       /\ ~(args.exclude.some /\ SuppliedMatches(args.exclude.val, node.name))
    \/ /\ args.content
       /\ File_open(node) = "ok"
       /\ \E k \in DOMAIN node.lines :
             /\ \A j \in 1..k : node.lines[j] # BadLine
             /\ SuppliedFilterMatches(node.lines[k])

\* C3: a pattern that fails to compile neither broadens nor narrows matching: every
\* file (with a UTF-8 name) is selected exactly as if that pattern matched nothing,
\* also when every supplied filter pattern fails to compile.
C3_InvalidPatternNeutral ==
    [][(EntryFile /\ Utf8(Entry.node.name)) =>
          Selects(SelectedIfInvalidMatchesNothing(Entry.node))]_vars


\* an entry search_files descends into, and a directory it can list
Descended(node) == node.kind = "dir" /\ node.stat = "ok"
Listable(node) == Descended(node) /\ node.open = "ok"

\* what one entry handled as a file adds to the matched files
FileContribution(path, node) ==
    IF Utf8(node.name) /\ StatedSelected(node) THEN <<to_string_lossy(path)>> ELSE <<>>

RECURSIVE FilesOfListing(_, _), FilesOfDirectory(_, _)
\* the contributions of the entries, one after the other in enumeration order
FilesOfListing(path, entries) ==
    IF entries = <<>> THEN <<>>
    ELSE LET e == Head(entries)
             here == IF e.err # "none" THEN <<>>
                     ELSE IF Descended(e.node)
                          THEN FilesOfDirectory(join(path, e.node.name), e.node)
                          ELSE FileContribution(join(path, e.node.name), e.node)
         IN here \o FilesOfListing(path, Tail(entries))

\* the matched files of a directory
FilesOfDirectory(path, node) ==
    IF Listable(node) THEN FilesOfListing(path, node.entries) ELSE <<>>

RECURSIVE OwnLevelFiles(_, _), SubdirectoryFiles(_, _)
\* the matched files found at the directory's own level
OwnLevelFiles(path, entries) ==
    IF entries = <<>> THEN <<>>
    ELSE LET e == Head(entries)
         IN (IF e.err = "none" /\ ~Descended(e.node)
             THEN FileContribution(join(path, e.node.name), e.node) ELSE <<>>)
            \o OwnLevelFiles(path, Tail(entries))

\* the matched files of the subdirectories c1, c2, .. in that order
SubdirectoryFiles(path, entries) ==
    IF entries = <<>> THEN <<>>
    ELSE LET e == Head(entries)
         IN (IF e.err = "none" /\ Descended(e.node)
             THEN FilesOfDirectory(join(path, e.node.name), e.node) ELSE <<>>)
            \o SubdirectoryFiles(path, Tail(entries))

\* C4 as stated: the matched files a call returns are the files matched at the
\* directory's own level, followed by those of c1, followed by those of c2,
\* whatever the position of files and subdirectories in the enumeration.
C4_Original ==
    (ret.some /\ Listable(Lookup(fs, ret.dir))) =>
        ret.files = OwnLevelFiles(ret.dir, Lookup(fs, ret.dir).entries)
                        \o SubdirectoryFiles(ret.dir, Lookup(fs, ret.dir).entries)

\* C4 as amended: the matched files a call returns are the concatenation, in
\* enumeration order, of what each entry contributes: a selected file its own path,
\* a subdirectory its matched files.  Own-level files come before a subdirectory's
\* files only where they are enumerated before it; c1's files precede c2's.
C4_Concatenation == ret.some => ret.files = FilesOfDirectory(ret.dir, Lookup(fs, ret.dir))

\* a subdirectory's file is returned before a file of the directory itself
C4_Witness ==
    /\ ret.some
    /\ ret.dir = <<dir_a>>
    /\ ret.files = <<to_string_lossy(<<dir_a, dir_b, notes_txt>>),
                     to_string_lossy(<<dir_a, notes_txt>>)>>

\* C5 as stated: whatever the other options, a file whose name matches the compiled
\* exclude pattern is never matched, and a file whose name matches a filter and not
\* the exclude pattern is matched.
C5_Original ==
    [][(EntryFile /\ Utf8(Entry.node.name)) =>
         /\ StatedNameExcluded(Entry.node.name) => Selects(FALSE)
         /\ (StatedFilterMatches(Entry.node.name) /\ ~StatedNameExcluded(Entry.node.name))
               => Selects(TRUE)]_vars

\* C5 as amended: a file whose name matches the compiled exclude pattern is matched
\* only by content (content search enabled and the scan finds a matching line); with
\* no content match it is not matched even when its name matches a filter.  A file
\* whose name matches a filter and not the exclude pattern is matched when it is not
\* hidden or hidden files are included (or, again, by content).
C5_ExcludeOverridesInclude ==
    [][(EntryFile /\ Utf8(Entry.node.name)) =>
         /\ StatedNameExcluded(Entry.node.name) =>
               Selects(StatedContentMatches(Entry.node))
         /\ (StatedFilterMatches(Entry.node.name) /\ ~StatedNameExcluded(Entry.node.name))
               => Selects(StatedHiddenOk(Entry.node.name) \/ StatedContentMatches(Entry.node))]_vars

\* filter ["*.txt"], exclude "secret.txt": secret.txt was looked at and not matched
C5_Witness ==
    /\ ret.some
    /\ args.filter = <<star_txt>>
    /\ args.exclude = Some(secret_txt)
    /\ NamesOf(fs[dir_a].entries) = {secret_txt}
    /\ ret.files = <<>>

\* C6 as stated: for every filter list, a file whose name starts with '.' is absent
\* when includeHidden is false and present when it is true.
C6_Original ==
    [][(EntryFile /\ Utf8(Entry.node.name) /\ Entry.node.name[1] = ".") =>
          Selects(args.all)]_vars

\* C6 as amended: a file whose name starts with '.' is, when includeHidden is
\* false, absent unless it matches by content; when includeHidden is true it is
\* present exactly if its name passes the filter and exclude rules or it matches by
\* content.
C6_HiddenBoundary ==
    [][(EntryFile /\ Utf8(Entry.node.name) /\ Entry.node.name[1] = ".") =>
          IF args.all
          THEN Selects(\/ /\ StatedNameIncluded(Entry.node.name)
                          /\ ~StatedNameExcluded(Entry.node.name)
                       \/ StatedContentMatches(Entry.node))
          ELSE Selects(StatedContentMatches(Entry.node))]_vars

\* .env was looked at with includeHidden false and no filter, and is absent
C6_Witness ==
    /\ ret.some
    /\ ~args.all
    /\ args.filter = <<>>
    /\ NamesOf(fs[dir_a].entries) = {dot_env}
    /\ ret.files = <<>>

\* the content scan of the file can be carried out to its end
Readable(node) == File_open(node) = "ok" /\ \A k \in DOMAIN node.lines : node.lines[k] # BadLine

\* C7 as stated: an empty filter Matcher Set restricts nothing, for names and for
\* content: every file is name-included (subject to the hidden and exclude rules),
\* and with content search enabled every readable file satisfies contentMatches
\* (so it is selected).
C7_Original ==
    [][(EntryFile /\ Utf8(Entry.node.name) /\ filter_regexes = <<>>) =>
         /\ (StatedHiddenOk(Entry.node.name) /\ ~StatedNameExcluded(Entry.node.name))
               => Selects(TRUE)
         /\ (args.content /\ Readable(Entry.node)) => Selects(TRUE)]_vars

\* C7 as amended: an empty filter Matcher Set restricts nothing for names only:
\* every file is name-included, subject to the hidden and exclude rules.  For
\* content it matches nothing: with an empty filter set no file satisfies
\* contentMatches, so a file is selected exactly if it passes the hidden and
\* exclude rules, content search enabled or not.
C7_EmptyFilterSet ==
    [][(EntryFile /\ Utf8(Entry.node.name) /\ filter_regexes = <<>>) =>
          Selects(StatedHiddenOk(Entry.node.name) /\ ~StatedNameExcluded(Entry.node.name))]_vars

\* content search, no filter: a readable hidden file with lines was not selected
C7_Witness ==
    /\ ret.some
    /\ args.content /\ ~args.all
    /\ args.filter = <<>>
    /\ fs[dir_a].entries = <<OkEntry(FileNode(dot_env, "ok", <<TODO>>))>>
    /\ ret.files = <<>>


\* the metadata lookup of the node fails, or it is a directory that cannot be opened
CannotBeRead(node) == node.stat # "ok" \/ (node.kind = "dir" /\ node.open # "ok")
FailureKind(node) == IF node.stat # "ok" THEN node.stat ELSE node.open

\* tuple r holds no matched file and exactly one error entry for `path`
OneErrorEntry(r, path, kind) ==
    /\ r.files = <<>>
    /\ IF kind = PermissionDenied
       THEN /\ r.permission_denied_dirs = <<to_string_lossy(path)>>
            /\ ~r.other_error_occurred
            /\ r.error_message = <<>>
       ELSE /\ r.permission_denied_dirs = <<>>
            /\ r.other_error_occurred
            /\ Len(r.error_message) = 1
            /\ r.error_message[1] # NL
            /\ r.error_message[1].path = to_string_lossy(path)

\* a call on a directory that cannot be read returns one error entry and no file
FailedCallReturnsOneError ==
    (ret.some /\ CannotBeRead(Lookup(fs, ret.dir))) =>
        OneErrorEntry(ret, ret.dir, FailureKind(Lookup(fs, ret.dir)))

\* a call on a directory that cannot be read never gets to its entries
FailedCallListsNothing ==
    \A k \in DOMAIN stack :
        CannotBeRead(Lookup(fs, stack[k].dir)) => stack[k].at \in {"metadata", "read_dir"}

\* the error entries a frame holds: denied paths and lines of error text
ErrorEntries(f) == Len(f.permission_denied_dirs) + Len(lines(f.error_message))

\* the caller takes over the one error entry and keeps its matched files, as it
\* keeps them for an empty directory
FailedCallLeavesCaller ==
    (SpliceSubResult /\ CannotBeRead(Lookup(fs, ret.dir))) =>
        /\ NewTop.files = Top.files
        /\ NewTop.read_dir = Top.read_dir
        /\ ErrorEntries(NewTop) = ErrorEntries(Top) + 1

DirectoryEntry == AtEntry /\ Entry.err = "none" /\ Entry.node.kind = "dir"

RECURSIVE VisitedIn(_), VisitedBelow(_)
\* the directories search_files visits in a listing: those it can stat, and below
VisitedIn(entries) ==
    IF entries = <<>> THEN 0
    ELSE (IF Head(entries).err = "none" /\ Descended(Head(entries).node)
          THEN 1 + VisitedBelow(Head(entries).node) ELSE 0)
         + VisitedIn(Tail(entries))

VisitedBelow(node) == IF Listable(node) THEN VisitedIn(node.entries) ELSE 0

RECURSIVE VisitedFrom(_)
\* one visit for each root, accessible or not, and those below it
VisitedFrom(roots) ==
    IF roots = <<>> THEN 0
    ELSE 1 + VisitedBelow(Lookup(fs, <<Head(roots)>>)) + VisitedFrom(Tail(roots))

Completed ==
    /\ pc = "done"
    /\ printed.done
    /\ stack = <<>>
    /\ ~ret.some
    /\ calls = VisitedFrom(directories)

RECURSIVE StepsOfListing(_), StepsOfCall(_)
\* the steps search_files takes over the entries of a listing
StepsOfListing(entries) ==
    IF entries = <<>> THEN 0
    ELSE (IF Head(entries).err = "none" /\ Descended(Head(entries).node)
          THEN 2 + StepsOfCall(Head(entries).node) ELSE 1)
         + StepsOfListing(Tail(entries))

\* the steps of one call: the metadata lookup, the open, the entries, the return
StepsOfCall(node) ==
    IF ~Descended(node) THEN 1
    ELSE IF ~Listable(node) THEN 2
    ELSE 3 + StepsOfListing(node.entries)

StepsOfFrame(f) ==
    CASE f.at = "metadata" -> StepsOfCall(Lookup(fs, f.dir))
      [] f.at = "read_dir" -> StepsOfCall(Lookup(fs, f.dir)) - 1
      [] f.at = "entries" -> StepsOfListing(f.read_dir) + 1
      [] f.at = "splice" -> StepsOfListing(f.read_dir) + 2

RECURSIVE StepsOfStack(_), StepsOfRoots(_)
StepsOfStack(frames) ==
    IF frames = <<>> THEN 0 ELSE StepsOfFrame(Head(frames)) + StepsOfStack(Tail(frames))

\* for each root: the call, its steps, the merge
StepsOfRoots(roots) ==
    IF roots = <<>> THEN 0 ELSE 2 + StepsOfCall(Lookup(fs, <<Head(roots)>>)) + StepsOfRoots(Tail(roots))

GivenRoots ==
    IF args.dir \o args.additional_dirs = <<>> THEN <<dot>> ELSE args.dir \o args.additional_dirs

\* the steps the run still has to take, display_results being the last
StepsLeft ==
    CASE pc = "filter_regexes" -> 3 + StepsOfRoots(GivenRoots)
      [] pc = "directories" -> 2 + StepsOfRoots(GivenRoots)
      [] pc = "for" -> 1 + StepsOfRoots(SubSeq(directories, next_dir, Len(directories)))
      [] pc = "merge" -> 2 + StepsOfStack(stack)
                           + StepsOfRoots(SubSeq(directories, next_dir + 1, Len(directories)))
      [] pc = "done" -> 0

\* C9: whatever the tree, the roots, the options and the errors, the run completes:
\* as long as it has not reported, a step is possible, and every step takes it
\* closer to the report, so every call of search_files returns and main reaches the
\* reporting step; by then search_files was invoked exactly once for each directory
\* visited, and exactly once, without recursion, for a root that is inaccessible.
C9_RunCompletes ==
    /\ [](Completed \/ ENABLED Next)
    /\ [](pc = "done" => Completed)
    /\ [][StepsLeft' \in 0 .. (StepsLeft - 1)]_vars

\* a run over one root that is done after three calls, two of them recursive
C9_Witness ==
    /\ pc = "done"
    /\ Len(directories) = 1
    /\ calls = 3
    /\ \E k \in DOMAIN fs[dir_a].entries : CannotBeRead(fs[dir_a].entries[k].node)

\* a run over an inaccessible root is done after its one call
C9_WitnessInaccessible ==
    /\ pc = "done"
    /\ directories = <<locked>>
    /\ calls = 1

FlagIffText(r) == r.other_error_occurred <=> (r.error_message # <<>>)

RECURSIVE MessagesOf(_)
\* the messages of an error text, its line feeds left out
MessagesOf(text) ==
    IF text = <<>> THEN {}
    ELSE (IF Head(text) = NL THEN {} ELSE {Head(text)}) \cup MessagesOf(Tail(text))

\* C10: in every tuple search_files holds or returns, at any depth, and in what main
\* accumulates, the other-error flag is true if and only if the error text is not
\* empty; so display_results, printing the text only under the flag, hides no
\* recorded message.
C10_FlagIffErrorText ==
    /\ \A k \in DOMAIN stack : FlagIffText(stack[k])
    /\ ret.some => FlagIffText(ret)
    /\ other_error_occurred <=> (error_messages # <<>>)
    /\ printed.done =>
          MessagesOf(error_messages) = UNION {MessagesOf(printed.errors[k]) : k \in DOMAIN printed.errors}

\* an error recorded two levels down has been printed
C10_Witness ==
    /\ printed.done
    /\ \E k \in DOMAIN printed.errors :
          \E m \in MessagesOf(printed.errors[k]) : Len(m.path) = 3


====
